---- MODULE Spec2Model ----
(***************************************************************************)
(* Model of scraperMTQ.py: the scan loop of scraper(), the checkpoint      *)
(* table cid.csv, the dataset signaux_routiers.csv and the dataset merge   *)
(* update_signal_data().                                                   *)
(*                                                                         *)
(* A DataFrame is a sequence of rows.  A row of the checkpoint table is    *)
(* [cid, has_image]; a row of the dataset is [cid, Numero] (Numero stands  *)
(* for the extracted text columns, which the code all treats alike).       *)
(* The remote site, the file system and the network are the environment:   *)
(* every answer they may give is a separate action.                        *)
(***************************************************************************)
EXTENDS Integers, Sequences, FiniteSets, TLC

\* ---------------------------------------------------------------- bounds
\* the catalogue holds the CIDs 1..MaxCid
MaxCid == 2
\* the ranges of all the runs of a behaviour hold MaxVisits CIDs together
MaxVisits == 3
\* longest existing_df and new_data handed to update_signal_data alone
MaxLen == 2
\* failures of the environment in a behaviour
MaxFaults == 1

CIDs == 1..MaxCid
Modes == {"full", "minimal", "partial"}

\* Text of the Numero span as extracted (line 134-136): a value, or the
\* default "N/A" when the span is missing.
NumeroValues == {"P-1", "N/A"}
\* A missing value in a DataFrame read back from CSV.
NaN == "NaN"
NoData == [cid |-> 0, Numero |-> ""]

VARIABLES
    cidFile,                \* rows of cid.csv on disk
    csvFile,                \* rows of signaux_routiers.csv on disk (text)
    images,                 \* files this run wrote under images_signaux
    history,                \* lines this run appended to historique.log
    visits,                 \* CIDs handed to the runs started so far
    faults,                 \* failures the environment has produced so far
    pc,                     \* position of the running scraper() call
    mode, cid_start, cid_end,
    cid,                    \* loop variable of line 99
    cid_df,                 \* in-memory checkpoint table
    existing_cids,          \* line 93
    data_list,              \* line 94
    existing_signal_data,   \* line 97
    data,                   \* line 130, record under construction
    reqs,                   \* requests.get calls of this run: <<cid, kind>>
    outcome,                \* how this run left each CID
    delayed,                \* CIDs after which time.sleep ran
    ckpt0,                  \* cid.csv as it was when this run started
    csv0,                   \* signaux_routiers.csv as it was at that time
    csv_writes,             \* times this run wrote signaux_routiers.csv
    mE, mN, mOut, mOut2, mpc  \* harness for update_signal_data

runVars == <<pc, mode, cid_start, cid_end, cid, cid_df, existing_cids,
             data_list, existing_signal_data, data>>
diskVars == <<cidFile, csvFile, images, history>>
ghostVars == <<reqs, outcome, delayed, ckpt0, csv0, csv_writes>>
mergeVars == <<mE, mN, mOut, mOut2, mpc>>
vars == <<diskVars, visits, faults, runVars, ghostVars, mergeVars>>

\* ------------------------------------------------------- pure operators
RECURSIVE SelectSeqIdx(_, _, _)
\* rows s[i..] whose index satisfies keep
SelectSeqIdx(s, i, keep) ==
    IF i > Len(s) THEN <<>>
    ELSE (IF i \in keep THEN <<s[i]>> ELSE <<>>) \o SelectSeqIdx(s, i + 1, keep)

CidsOf(df) == {df[i].cid : i \in 1..Len(df)}
RowsOf(df, c) == SelectSeq(df, LAMBDA r : r.cid = c)

\* pandas to_csv of one text cell: a missing value is written as an empty cell
to_csv_cell(v) == IF v = NaN THEN "" ELSE v
\* pandas read_csv of one text cell: "" and "N/A" are both read as missing
read_csv_cell(t) == IF t \in {"", "N/A"} THEN NaN ELSE t

to_csv(df) == [i \in 1..Len(df) |-> [cid |-> df[i].cid, Numero |-> to_csv_cell(df[i].Numero)]]
read_csv(f) == [i \in 1..Len(f) |-> [cid |-> f[i].cid, Numero |-> read_csv_cell(f[i].Numero)]]

\* load_cid_data: ints and booleans are read back as written; a missing
\* file gives the empty table
load_cid_data(f) == f
\* load_signal_data
load_signal_data(f) == read_csv(f)

\* DataFrame.drop_duplicates(subset=["cid"], keep="last")
drop_duplicates_first(df) ==
    SelectSeqIdx(df, 1, {i \in 1..Len(df) : \A j \in 1..(i - 1) : df[j].cid # df[i].cid})
drop_duplicates_last(df) ==
    SelectSeqIdx(df, 1, {i \in 1..Len(df) : \A j \in (i + 1)..Len(df) : df[j].cid # df[i].cid})

update_signal_data_first(existing_df, new_data) ==
    drop_duplicates_first(existing_df \o new_data)
update_signal_data_concat(existing_df, new_data) ==
    existing_df \o new_data
update_signal_data_newonly(existing_df, new_data) ==
    drop_duplicates_last(new_data)
update_signal_data(existing_df, new_data) ==
    drop_duplicates_last(existing_df \o new_data)

\* line 93
ExistingCids_noimage(df) ==
    {df[i].cid : i \in {j \in 1..Len(df) : df[j].has_image = FALSE}}
ExistingCids(df) == IF df = <<>> THEN {} ELSE CidsOf(df)

\* cid_df.loc[cid_df["cid"] == cid, "has_image"].values[0]
FirstHasImage(df, c) == RowsOf(df, c)[1].has_image
LastHasImage(df, c) == RowsOf(df, c)[Len(RowsOf(df, c))].has_image

\* line 101
SkipsMinimal_anymode(m, c, ex) == c \in ex
SkipsMinimal(m, c, ex) == m = "minimal" /\ c \in ex

\* lines 106-107
SkipsPartial(m, c, ex, df) ==
    m = "partial" /\ c \in ex /\ FirstHasImage(df, c) = FALSE

\* lines 115-116, 191-192
AppendCid(df, c, b) == df \o <<[cid |-> c, has_image |-> b]>>

\* The environment fails (an exception, a status other than 200, a file
\* that cannot be written) at most MaxFaults times in a behaviour.
Fault == faults < MaxFaults /\ faults' = faults + 1
NoFault == faults' = faults

\* ----------------------------------------------------------------- Init
NoOutcome == [c \in CIDs |-> "none"]

Init ==
    /\ cidFile = <<>> /\ csvFile = <<>> /\ images = {} /\ history = 0
    /\ visits = 0 /\ faults = 0
    /\ pc = "idle" /\ mode = "minimal" /\ cid_start = 1 /\ cid_end = 1
    /\ cid = 1 /\ cid_df = <<>> /\ existing_cids = {}
    /\ data_list = <<>> /\ existing_signal_data = <<>> /\ data = NoData
    /\ reqs = {} /\ outcome = NoOutcome /\ delayed = {} /\ ckpt0 = <<>>
    /\ csv0 = <<>> /\ csv_writes = 0
    /\ mE = <<>> /\ mN = <<>> /\ mOut = <<>> /\ mOut2 = <<>> /\ mpc = "off"

\* -------------------------------------------------------------- scraper
\* lines 84-97: a new process calls scraper(cs, ce, m)
StartRun(cs, ce, m) ==
    /\ NoFault
    /\ pc \in {"idle", "done", "aborted"}
    /\ cs <= ce
    /\ visits + (ce - cs + 1) <= MaxVisits
    /\ visits' = visits + (ce - cs + 1)
    /\ mode' = m /\ cid_start' = cs /\ cid_end' = ce
    /\ cid_df' = load_cid_data(cidFile)
    /\ existing_cids' = ExistingCids(load_cid_data(cidFile))
    /\ data_list' = <<>>
    /\ existing_signal_data' = load_signal_data(csvFile)
    /\ data' = NoData
    /\ cid' = cs
    /\ pc' = "loop"
    /\ reqs' = {} /\ outcome' = NoOutcome /\ delayed' = {} /\ ckpt0' = cidFile
    /\ images' = {} /\ history' = 0
    /\ csv0' = csvFile /\ csv_writes' = 0
    /\ UNCHANGED <<cidFile, csvFile, mergeVars>>

\* the loop moves on to the next CID (continue, or end of the body)
NextCid(res) ==
    /\ cid' = cid + 1
    /\ pc' = "loop"
    /\ data' = NoData
    /\ outcome' = [outcome EXCEPT ![cid] = res]

InLoop_offbyone == pc = "loop" /\ cid <= cid_end + 1
InLoop == pc = "loop" /\ cid <= cid_end

\* lines 101-103
SkipMinimal ==
    /\ NoFault
    /\ InLoop
    /\ SkipsMinimal(mode, cid, existing_cids)
    /\ NextCid("skipped")
    /\ UNCHANGED <<diskVars, visits, mode, cid_start, cid_end, cid_df,
                   existing_cids, data_list, existing_signal_data,
                   reqs, delayed, ckpt0, csv0, csv_writes, mergeVars>>

\* lines 106-109
SkipPartial ==
    /\ NoFault
    /\ InLoop
    /\ ~SkipsMinimal(mode, cid, existing_cids)
    /\ SkipsPartial(mode, cid, existing_cids, cid_df)
    /\ NextCid("skipped")
    /\ UNCHANGED <<diskVars, visits, mode, cid_start, cid_end, cid_df,
                   existing_cids, data_list, existing_signal_data,
                   reqs, delayed, ckpt0, csv0, csv_writes, mergeVars>>

\* the CID reaches line 112
NotSkipped ==
    /\ InLoop
    /\ ~SkipsMinimal(mode, cid, existing_cids)
    /\ ~SkipsPartial(mode, cid, existing_cids, cid_df)

\* line 112 (requests.get of line 75) and no further request
Probed ==
    /\ NotSkipped
    /\ reqs' = reqs \cup {<<cid, "probe">>}

\* lines 70-81: the answer of check_image for a response with this status
\* whose document does or does not hold an <img> in div Image220Centrer
check_image(status, img) == IF status # 200 THEN FALSE ELSE img

Statuses == {200, 500}

ProbeOutcome(status) == IF status # 200 THEN "probe_http" ELSE "noimage"

\* line 75 raises (connection failure); line 112 is outside the try block
ProbeRaises ==
    /\ Fault
    /\ Probed
    /\ pc' = "aborted"
    /\ outcome' = [outcome EXCEPT ![cid] = "probe_raised"]
    /\ UNCHANGED <<diskVars, visits, mode, cid_start, cid_end, cid, cid_df,
                   existing_cids, data_list, existing_signal_data, data,
                   delayed, ckpt0, csv0, csv_writes, mergeVars>>

ProbeNoImage_nosave(status, img) ==
    /\ IF status # 200 THEN Fault ELSE NoFault
    /\ Probed
    /\ ~check_image(status, img)
    /\ NextCid(ProbeOutcome(status))
    /\ UNCHANGED <<diskVars, visits, mode, cid_start, cid_end, cid_df,
                   existing_cids, data_list, existing_signal_data,
                   delayed, ckpt0, csv0, csv_writes, mergeVars>>

\* lines 112-118: check_image is False, the row is appended and saved
ProbeNoImage(status, img) ==
    /\ IF status # 200 THEN Fault ELSE NoFault
    /\ Probed
    /\ ~check_image(status, img)
    /\ cid_df' = AppendCid(cid_df, cid, FALSE)
    /\ cidFile' = cid_df'
    /\ NextCid(ProbeOutcome(status))
    /\ UNCHANGED <<csvFile, images, history, visits, mode, cid_start, cid_end,
                   existing_cids, data_list, existing_signal_data,
                   delayed, ckpt0, csv0, csv_writes, mergeVars>>

\* lines 112-117: check_image is False and save_cid_data raises (the file
\* cannot be opened for writing, it stays as it was); line 117 is outside
\* the try block
ProbeNoImageSaveFails(status, img) ==
    /\ Fault
    /\ Probed
    /\ ~check_image(status, img)
    /\ cid_df' = AppendCid(cid_df, cid, FALSE)
    /\ pc' = "aborted"
    /\ outcome' = [outcome EXCEPT ![cid] = "save_false_failed"]
    /\ UNCHANGED <<diskVars, visits, mode, cid_start, cid_end, cid,
                   existing_cids, data_list, existing_signal_data, data,
                   delayed, ckpt0, csv0, csv_writes, mergeVars>>

\* line 112 answers True and line 122 sends the second request
PageRequested ==
    /\ NotSkipped
    /\ check_image(200, TRUE)
    /\ reqs' = reqs \cup {<<cid, "probe">>, <<cid, "page">>}

\* line 122 raises; it is outside the try block
PageRaises ==
    /\ Fault
    /\ PageRequested
    /\ pc' = "aborted"
    /\ outcome' = [outcome EXCEPT ![cid] = "page_raised"]
    /\ UNCHANGED <<diskVars, visits, mode, cid_start, cid_end, cid, cid_df,
                   existing_cids, data_list, existing_signal_data, data,
                   delayed, ckpt0, csv0, csv_writes, mergeVars>>

\* lines 123-125
PageHttpError ==
    /\ Fault
    /\ PageRequested
    /\ NextCid("page_http")
    /\ UNCHANGED <<diskVars, visits, mode, cid_start, cid_end, cid_df,
                   existing_cids, data_list, existing_signal_data,
                   delayed, ckpt0, csv0, csv_writes, mergeVars>>

ExtractRaises_early ==
    /\ Fault
    /\ PageRequested
    /\ cid_df' = AppendCid(cid_df, cid, TRUE)
    /\ cidFile' = cid_df'
    /\ NextCid("extract_err")
    /\ UNCHANGED <<csvFile, images, history, visits, mode, cid_start, cid_end,
                   existing_cids, data_list, existing_signal_data,
                   delayed, ckpt0, csv0, csv_writes, mergeVars>>

\* lines 132-181 raise on an unexpected document (a dimension row with
\* fewer than two cells, no image container); lines 198-200
ExtractRaises ==
    /\ Fault
    /\ PageRequested
    /\ NextCid("extract_err")
    /\ UNCHANGED <<diskVars, visits, mode, cid_start, cid_end, cid_df,
                   existing_cids, data_list, existing_signal_data,
                   delayed, ckpt0, csv0, csv_writes, mergeVars>>

\* lines 127-182: the fields are extracted, v is the Numero text
ExtractOk(v) ==
    /\ NoFault
    /\ PageRequested
    /\ data' = [cid |-> cid, Numero |-> v]
    /\ pc' = "image"
    /\ UNCHANGED <<diskVars, visits, mode, cid_start, cid_end, cid, cid_df,
                   existing_cids, data_list, existing_signal_data,
                   outcome, delayed, ckpt0, csv0, csv_writes, mergeVars>>

ImageRequested ==
    /\ pc = "image"
    /\ reqs' = reqs \cup {<<cid, "image">>}

\* line 183 raises; lines 198-200
ImageRaises ==
    /\ Fault
    /\ ImageRequested
    /\ NextCid("image_err")
    /\ UNCHANGED <<diskVars, visits, mode, cid_start, cid_end, cid_df,
                   existing_cids, data_list, existing_signal_data,
                   delayed, ckpt0, csv0, csv_writes, mergeVars>>

\* line 184: the status is not 200, no file is written
ImageHttpError ==
    /\ Fault
    /\ ImageRequested
    /\ pc' = "ckpt"
    /\ UNCHANGED <<diskVars, visits, mode, cid_start, cid_end, cid, cid_df,
                   existing_cids, data_list, existing_signal_data, data,
                   outcome, delayed, ckpt0, csv0, csv_writes, mergeVars>>

\* os.path.join(IMAGE_DIR, f"{Numero}-{cid}.png"): a Numero holding "/"
\* names a file in a sub-directory that nothing creates
ImagePathExists(numero) == numero # "N/A"

\* lines 184-188: status 200, the file is written
ImageOk ==
    /\ NoFault
    /\ ImageRequested
    /\ ImagePathExists(data.Numero)
    /\ images' = images \cup {<<data.Numero, cid>>}
    /\ pc' = "ckpt"
    /\ UNCHANGED <<cidFile, csvFile, history, visits, mode, cid_start, cid_end,
                   cid, cid_df, existing_cids, data_list,
                   existing_signal_data, data, outcome, delayed, ckpt0,
                   csv0, csv_writes,
                   mergeVars>>

\* lines 187-188 raise (no such directory, or the disk refuses the write);
\* lines 198-200
ImageWriteFails ==
    /\ IF ImagePathExists(data.Numero) THEN Fault ELSE NoFault
    /\ ImageRequested
    /\ NextCid("image_write_err")
    /\ UNCHANGED <<diskVars, visits, mode, cid_start, cid_end, cid_df,
                   existing_cids, data_list, existing_signal_data,
                   delayed, ckpt0, csv0, csv_writes, mergeVars>>

SaveTrueOk_percid ==
    /\ NoFault
    /\ pc = "ckpt"
    /\ cid_df' = AppendCid(cid_df, cid, TRUE)
    /\ cidFile' = cid_df'
    /\ data_list' = Append(data_list, data)
    /\ csvFile' = to_csv(update_signal_data(existing_signal_data, data_list'))
    /\ csv_writes' = csv_writes + 1
    /\ delayed' = delayed \cup {cid}
    /\ NextCid("fetched")
    /\ UNCHANGED <<images, history, visits, mode, cid_start, cid_end,
                   existing_cids, existing_signal_data, reqs, ckpt0, csv0,
                   mergeVars>>

\* lines 190-196
SaveTrueOk ==
    /\ NoFault
    /\ pc = "ckpt"
    /\ cid_df' = AppendCid(cid_df, cid, TRUE)
    /\ cidFile' = cid_df'
    /\ data_list' = Append(data_list, data)
    /\ delayed' = delayed \cup {cid}
    /\ NextCid("fetched")
    /\ UNCHANGED <<csvFile, images, history, visits, mode, cid_start, cid_end,
                   existing_cids, existing_signal_data, reqs, ckpt0,
                   csv0, csv_writes,
                   mergeVars>>

\* lines 191-193 with save_cid_data raising inside the try block;
\* lines 198-200
SaveTrueFails ==
    /\ Fault
    /\ pc = "ckpt"
    /\ cid_df' = AppendCid(cid_df, cid, TRUE)
    /\ NextCid("save_true_failed")
    /\ UNCHANGED <<diskVars, visits, mode, cid_start, cid_end,
                   existing_cids, data_list, existing_signal_data,
                   reqs, delayed, ckpt0, csv0, csv_writes, mergeVars>>

LoopDone == pc = "loop" /\ cid > cid_end

EndLoopNoData_rewrite ==
    /\ NoFault
    /\ LoopDone
    /\ data_list = <<>>
    /\ csvFile' = to_csv(update_signal_data(existing_signal_data, data_list))
    /\ csv_writes' = csv_writes + 1
    /\ pc' = "log"
    /\ UNCHANGED <<cidFile, images, history, visits, mode, cid_start, cid_end,
                   cid, cid_df, existing_cids, data_list,
                   existing_signal_data, data, reqs, outcome, delayed,
                   ckpt0, csv0, mergeVars>>

\* line 203 with an empty data_list
EndLoopNoData ==
    /\ NoFault
    /\ LoopDone
    /\ data_list = <<>>
    /\ pc' = "log"
    /\ UNCHANGED <<diskVars, visits, mode, cid_start, cid_end, cid, cid_df,
                   existing_cids, data_list, existing_signal_data, data,
                   ghostVars, mergeVars>>

\* lines 203-207
MergeAndSave ==
    /\ NoFault
    /\ LoopDone
    /\ data_list # <<>>
    /\ csvFile' = to_csv(update_signal_data(existing_signal_data, data_list))
    /\ csv_writes' = csv_writes + 1
    /\ pc' = "log"
    /\ UNCHANGED <<cidFile, images, history, visits, mode, cid_start, cid_end,
                   cid, cid_df, existing_cids, data_list,
                   existing_signal_data, data, reqs, outcome, delayed,
                   ckpt0, csv0, mergeVars>>

\* line 206 raises: the dataset file cannot be written
MergeSaveFails ==
    /\ Fault
    /\ LoopDone
    /\ data_list # <<>>
    /\ pc' = "aborted"
    /\ UNCHANGED <<diskVars, visits, mode, cid_start, cid_end, cid, cid_df,
                   existing_cids, data_list, existing_signal_data, data,
                   ghostVars, mergeVars>>

\* lines 21-27, 210
log_execution ==
    /\ NoFault
    /\ pc = "log"
    /\ history' = history + 1
    /\ pc' = "done"
    /\ UNCHANGED <<cidFile, csvFile, images, visits, mode, cid_start, cid_end,
                   cid, cid_df, existing_cids, data_list,
                   existing_signal_data, data, ghostVars, mergeVars>>

Next ==
    \/ \E cs \in CIDs, ce \in CIDs, m \in Modes : StartRun(cs, ce, m)
    \/ SkipMinimal
    \/ SkipPartial
    \/ ProbeRaises
    \/ \E s \in Statuses, img \in BOOLEAN : ProbeNoImage(s, img)
    \/ \E s \in Statuses, img \in BOOLEAN : ProbeNoImageSaveFails(s, img)
    \/ PageRaises
    \/ PageHttpError
    \/ ExtractRaises
    \/ \E v \in NumeroValues : ExtractOk(v)
    \/ ImageRaises
    \/ ImageHttpError
    \/ ImageOk
    \/ ImageWriteFails
    \/ SaveTrueOk
    \/ SaveTrueFails
    \/ EndLoopNoData
    \/ MergeAndSave
    \/ MergeSaveFails
    \/ log_execution

Spec == Init /\ [][Next]_vars

\* the process running scraper() is killed between two steps; nothing is
\* written after that, the files stay as the last completed write left them
Interrupt ==
    /\ NoFault
    /\ pc \in {"loop", "image", "ckpt", "log"}
    /\ pc' = "aborted"
    /\ UNCHANGED <<diskVars, visits, mode, cid_start, cid_end, cid, cid_df,
                   existing_cids, data_list, existing_signal_data, data,
                   ghostVars, mergeVars>>

NextCrash == Next \/ Interrupt

SpecCrash == Init /\ [][NextCrash]_vars

\* ------------------------------------------- update_signal_data harness
Records == [cid : CIDs, Numero : NumeroValues]
RECURSIVE SeqsUpTo(_, _)
SeqsUpTo(S, n) ==
    IF n = 0 THEN {<<>>}
    ELSE LET shorter == SeqsUpTo(S, n - 1)
         IN shorter \cup {Append(s, x) : s \in {t \in shorter : Len(t) = n - 1}, x \in S}

InitMerge ==
    /\ cidFile = <<>> /\ csvFile = <<>> /\ images = {} /\ history = 0
    /\ visits = 0 /\ faults = 0
    /\ pc = "idle" /\ mode = "minimal" /\ cid_start = 1 /\ cid_end = 1
    /\ cid = 1 /\ cid_df = <<>> /\ existing_cids = {}
    /\ data_list = <<>> /\ existing_signal_data = <<>> /\ data = NoData
    /\ reqs = {} /\ outcome = NoOutcome /\ delayed = {} /\ ckpt0 = <<>>
    /\ csv0 = <<>> /\ csv_writes = 0
    /\ mE \in SeqsUpTo(Records, MaxLen)
    /\ mN \in SeqsUpTo(Records, MaxLen)
    /\ mOut = <<>> /\ mOut2 = <<>> /\ mpc = "in"

\* mOut = update_signal_data(mE, mN)
MergeOnce ==
    /\ mpc = "in"
    /\ mOut' = update_signal_data(mE, mN)
    /\ mpc' = "once"
    /\ UNCHANGED <<diskVars, visits, faults, runVars, ghostVars, mE, mN, mOut2>>

\* mOut2 = update_signal_data(mOut, mN)
MergeAgain ==
    /\ mpc = "once"
    /\ mOut2' = update_signal_data(mOut, mN)
    /\ mpc' = "twice"
    /\ UNCHANGED <<diskVars, visits, faults, runVars, ghostVars, mE, mN, mOut>>

NextMerge == MergeOnce \/ MergeAgain

SpecMerge == InitMerge /\ [][NextMerge]_vars

\* ---------------------------------------------------------------- claims
Running == pc # "idle"
\* the loop of this run has moved past c
Passed(c) == c \in cid_start..(cid - 1)
Kinds == {"probe", "page", "image"}
Requested(c) == \E k \in Kinds : <<c, k>> \in reqs
LastRow(df, c) == RowsOf(df, c)[Len(RowsOf(df, c))]
\* this run has written no checkpoint row for c, in memory or on disk
NoCheckpointWritten(c) ==
    /\ RowsOf(cid_df, c) = RowsOf(ckpt0, c)
    /\ RowsOf(cidFile, c) = RowsOf(ckpt0, c)

\* C1: in a minimal run no request is issued for a CID that had a
\* checkpoint row when the run started, and a CID the loop has passed was
\* skipped exactly when it had such a row (whatever its has_image);
\* a CID without a row was probed.
C1_MinimalSkipsCheckpointed ==
    (Running /\ mode = "minimal") =>
        \A c \in CIDs :
            /\ c \in CidsOf(ckpt0) => ~Requested(c)
            /\ Passed(c) => (outcome[c] = "skipped" <=> c \in CidsOf(ckpt0))
            /\ (Passed(c) /\ c \notin CidsOf(ckpt0)) => <<c, "probe">> \in reqs

C1_Witness ==
    /\ pc = "done" /\ mode = "minimal"
    /\ \E c \in CIDs :
        /\ Passed(c) /\ outcome[c] = "skipped"
        /\ LastRow(ckpt0, c).has_image = TRUE
    /\ \E c \in CIDs : Passed(c) /\ c \notin CidsOf(ckpt0) /\ Requested(c)

\* C2: in a partial run a CID the loop has passed was skipped exactly when
\* the checkpoint table held a row for it whose last-written value is
\* has_image = false.
C2_PartialSkipsIffLastFalse ==
    (Running /\ mode = "partial") =>
        \A c \in CIDs :
            Passed(c) =>
                (outcome[c] = "skipped" <=>
                    (c \in CidsOf(ckpt0) /\ LastRow(ckpt0, c).has_image = FALSE))

\* C3: in a full run every CID the loop has passed was probed and none was
\* skipped, whatever the checkpoint table held.
C3_FullNeverSkips ==
    (Running /\ mode = "full") =>
        \A c \in CIDs :
            Passed(c) => (<<c, "probe">> \in reqs /\ outcome[c] # "skipped")

C3_Witness ==
    /\ pc = "done" /\ mode = "full"
    /\ \E c \in CIDs :
        /\ Passed(c) /\ c \in CidsOf(ckpt0)
        /\ LastRow(ckpt0, c).has_image = FALSE
        /\ <<c, "probe">> \in reqs

\* C4: the persisted checkpoint table holds at most one row per CID.
C4_OneEntryPerCid ==
    \A c \in CIDs : Len(RowsOf(cidFile, c)) <= 1

\* C5: update_signal_data(existing, new) holds exactly one Record per CID of
\* existing or new; it is the last Record of that CID in new when new has
\* one, else the last Record of that CID in existing.
C5_MergeLastWins ==
    mpc \in {"once", "twice"} =>
        \A c \in CIDs :
            /\ Len(RowsOf(mOut, c)) = (IF c \in CidsOf(mE) \cup CidsOf(mN) THEN 1 ELSE 0)
            /\ c \in CidsOf(mN) => RowsOf(mOut, c) = <<LastRow(mN, c)>>
            /\ c \in CidsOf(mE) \ CidsOf(mN) => RowsOf(mOut, c) = <<LastRow(mE, c)>>

C5_Witness ==
    /\ mpc = "once"
    /\ \E c \in CIDs :
        /\ c \in CidsOf(mE) /\ Len(RowsOf(mN, c)) >= 2
        /\ LastRow(mE, c) # LastRow(mN, c)
        /\ RowsOf(mN, c)[1] # LastRow(mN, c)
        /\ RowsOf(mOut, c) = <<LastRow(mN, c)>>
    /\ \E c \in CIDs : c \in CidsOf(mE) \ CidsOf(mN)

\* C6: merging the same batch a second time changes nothing:
\* update_signal_data(update_signal_data(E, N), N) = update_signal_data(E, N),
\* same Records in the same order.
C6_MergeIdempotent ==
    mpc = "twice" => mOut2 = mOut

C6_Witness ==
    /\ mpc = "twice"
    /\ CidsOf(mE) \cap CidsOf(mN) # {}
    /\ CidsOf(mE) \ CidsOf(mN) # {}
    /\ Len(mOut) < Len(mE) + Len(mN)
    /\ mOut2 = mOut

\* C7: a CID whose probe or page request came back with a status other
\* than 200 gets no checkpoint row in this run.
C7_TransportErrorNoCheckpoint ==
    \A c \in CIDs :
        outcome[c] \in {"probe_http", "page_http"} => NoCheckpointWritten(c)

\* C8: a CID whose extraction or image handling raised gets no checkpoint
\* row in this run and has no Record in the batch of this run.
C8_ExtractionErrorLeavesNothing ==
    \A c \in CIDs :
        outcome[c] \in {"extract_err", "image_err", "image_write_err"} =>
            /\ NoCheckpointWritten(c)
            /\ c \notin CidsOf(data_list)

C8_Witness ==
    /\ pc = "done" /\ data_list # <<>>
    /\ \E c \in CIDs : outcome[c] \in {"extract_err", "image_err", "image_write_err"}

\* C9: a failing probe or page request of one CID never ends the run
\* before the loop is over.
C9_NoPerCidAbort ==
    pc = "aborted" =>
        \A c \in CIDs : outcome[c] \notin {"probe_raised", "page_raised"}

\* C10: a checkpoint write that fails aborts the run, for the
\* has_image=false write and for the has_image=true write alike.
C10_CheckpointSaveFailureAborts ==
    \A c \in CIDs :
        outcome[c] \in {"save_false_failed", "save_true_failed"} => pc = "aborted"

Fetched == {c \in CIDs : outcome[c] = "fetched"}
Completed == pc \in {"log", "done"}

\* C11 as stated: a completed run has written the dataset file exactly once.
C11_PersistedExactlyOnce ==
    pc = "done" => csv_writes = 1

\* C11 as amended: the dataset file is not written before the loop is over;
\* a completed run has written it once when it collected a Record, the
\* content being the last-wins merge of the dataset loaded at the start with
\* the Records of the CIDs fetched in the run, and has not written it when
\* it collected none.
C11_PersistedOnceIfBatch ==
    /\ (Running /\ ~Completed) => (csv_writes = 0 /\ csvFile = csv0)
    /\ Completed =>
        /\ CidsOf(data_list) = Fetched
        /\ IF data_list = <<>>
           THEN csv_writes = 0 /\ csvFile = csv0
           ELSE /\ csv_writes = 1
                /\ csvFile =
                     to_csv(update_signal_data(load_signal_data(csv0), data_list))

C11_Witness ==
    /\ pc = "done" /\ csv_writes = 1
    /\ CidsOf(csv0) \cap CidsOf(data_list) # {}
    /\ csvFile # csv0

\* C12: the delay runs after every CID of the run for which a request was
\* issued, and after no other CID.
C12_DelayAfterEveryRequest ==
    \A c \in CIDs : Passed(c) => (c \in delayed <=> Requested(c))

InRange(c) == c \in cid_start..cid_end

\* C13: a minimal run over a range whose CIDs all have a checkpoint row
\* issues no request, writes no file of the two stores and leaves their
\* content as it was.
C13_MinimalRerunNoEffect ==
    (Running /\ mode = "minimal" /\ \A c \in CIDs : InRange(c) => c \in CidsOf(ckpt0)) =>
        /\ reqs = {}
        /\ cidFile = ckpt0 /\ cid_df = load_cid_data(ckpt0)
        /\ csvFile = csv0 /\ csv_writes = 0
        /\ images = {}
        /\ pc # "aborted"

C13_Witness ==
    /\ pc = "done" /\ mode = "minimal"
    /\ \A c \in CIDs : InRange(c) => c \in CidsOf(ckpt0)
    /\ \E c \in CIDs : InRange(c) /\ c \in CidsOf(csv0)
    /\ \E c \in CidsOf(ckpt0) : ~InRange(c) /\ LastRow(ckpt0, c).has_image = FALSE

\* C14: a CID this run recorded as fetched has an image file written by
\* this run.
C14_FetchedHasImage ==
    \A c \in Fetched : \E f \in images : f[2] = c

Failed == {c \in CIDs : outcome[c] \in {"probe_http", "page_http", "extract_err",
                                         "image_err", "image_write_err",
                                         "save_true_failed"}}

\* C15: at every point of a run each CID that had a Record in the dataset
\* file when the run started still has one, and the checkpoint file still
\* starts with the rows it held then.
C15_NothingLost ==
    Running =>
        /\ CidsOf(csv0) \subseteq CidsOf(csvFile)
        /\ Len(cidFile) >= Len(ckpt0)
        /\ SubSeq(cidFile, 1, Len(ckpt0)) = ckpt0

C15_Witness ==
    /\ pc = "done" /\ csv_writes = 1
    /\ CidsOf(csv0) \ CidsOf(data_list) # {}
    /\ Failed \cap CidsOf(csv0) # {}
    /\ Len(cidFile) > Len(ckpt0)

NoImage == {c \in CIDs : outcome[c] = "noimage"}
FalseRow(c) == [cid |-> c, has_image |-> FALSE]

\* C16: a CID whose probe answered 200 without an image has one more
\* checkpoint row than at the start of the run, (cid, False), in memory and
\* on disk; it has no Record in the batch, only the probe was requested for
\* it, its Record in the dataset is as it was, and a run that fetched
\* nothing has not touched the dataset file.
C16_NoImageCheckpointedOnly ==
    /\ \A c \in NoImage :
        /\ RowsOf(cid_df, c) = Append(RowsOf(ckpt0, c), FalseRow(c))
        /\ RowsOf(cidFile, c) = Append(RowsOf(ckpt0, c), FalseRow(c))
        /\ c \notin CidsOf(data_list)
        /\ {k \in Kinds : <<c, k>> \in reqs} = {"probe"}
        /\ RowsOf(load_signal_data(csvFile), c) = RowsOf(load_signal_data(csv0), c)
    /\ (NoImage # {} /\ Fetched = {}) => (csvFile = csv0 /\ csv_writes = 0)

C16_Witness ==
    /\ pc = "done" /\ data_list # <<>>
    /\ \E c \in NoImage : c \in CidsOf(csv0) /\ c \in CidsOf(csvFile)

\* C17: whenever the loop stands between two CIDs, cid.csv holds exactly
\* the rows of the in-memory checkpoint table.
C17_DiskEqualsMemoryBetweenCids ==
    pc = "loop" => cidFile = load_cid_data(cid_df)

\* C18: after runs that may have been interrupted, once a minimal run over
\* a range holding every checkpointed CID has completed, every CID whose
\* checkpoint says has_image = true has a Record in the dataset file.
\* (faults = 0: no request and no write has failed, runs were only killed.)
C18_TrueCheckpointHasRecord ==
    (/\ pc = "done" /\ mode = "minimal" /\ faults = 0
     /\ \A c \in CidsOf(cidFile) : InRange(c)) =>
        \A c \in CidsOf(cidFile) :
            LastRow(cidFile, c).has_image => c \in CidsOf(csvFile)

\* this run has put a has_image = true row for c into cid.csv
WroteTrue(c) ==
    /\ Len(RowsOf(cidFile, c)) > Len(RowsOf(ckpt0, c))
    /\ LastRow(cidFile, c).has_image

\* C19: this run has written a has_image = true row for a CID exactly when
\* it has appended a Record of that CID to its batch.
C19_TrueCheckpointIffRecord ==
    \A c \in CIDs : WroteTrue(c) <=> c \in CidsOf(data_list)

InRun == pc \in {"loop", "image", "ckpt"}

\* C20: every step of a run works on the CID the loop stands on, which lies
\* in the range, has not been dealt with before and never decreases: new
\* requests and new checkpoint rows are for that CID, a CID gets its
\* outcome once, and the loop moves on by one.
C20_AscendingOnce ==
    [][InRun =>
        /\ cid' \in {cid, cid + 1}
        /\ \A r \in reqs' \ reqs : r[1] = cid /\ InRange(cid)
        /\ \A r \in reqs' : r[1] <= cid /\ InRange(r[1])
        /\ cid_df' # cid_df =>
            /\ InRange(cid)
            /\ \E b \in BOOLEAN : cid_df' = AppendCid(cid_df, cid, b)
        /\ cidFile' # cidFile => (InRange(cid) /\ cidFile' = cid_df')
        /\ outcome' # outcome =>
            /\ InRange(cid) /\ cid \in CIDs
            /\ outcome[cid] = "none"
            /\ \A c \in CIDs \ {cid} : outcome'[c] = outcome[c]
        /\ cid' = cid + 1 => (cid \in CIDs /\ outcome'[cid] # "none")
    ]_vars

C20_Witness ==
    /\ pc = "done" /\ cid_start < cid_end
    /\ \A c \in CIDs : InRange(c) => <<c, "probe">> \in reqs
    /\ \E c \in Fetched : \E d \in NoImage : c < d

====
